---- MODULE Spec2Model ----
(***************************************************************************)
(* Line-based patch application of the debugging agent.                    *)
(*                                                                         *)
(* Three patchers of the repository are modelled, selected by `variant`:   *)
(*   "agent"    FilePatcher.apply_corrections   (src/agent/file_patcher.py)*)
(*   "simple"   FilePatcher.apply_corrections   (src/file_patcher.py)      *)
(*   "debugger" DebuggerAgent._apply_patches    (src/agent/debugger_agent) *)
(*                                                                         *)
(* A text is a sequence of one-character strings.  A file on disk is a     *)
(* record [exists, data] whose data is the flat character sequence of the  *)
(* file; readlines()/writelines() are modelled by ReadLines/WriteLines.    *)
(***************************************************************************)
EXTENDS Integers, Sequences, FiniteSets, TLC

(***************************************************************************)
(* Bounds of the model.                                                    *)
(***************************************************************************)
\* Largest number of lines of the target file.
MaxLines == 2
\* Largest number of edits in one batch.
MaxEdits == 2
\* Number of further apply calls after the first one (SpecRepeat only).
MaxCalls == 1
\* Largest value of the wall clock, in seconds (SpecRepeat only).
MaxTime == 1

(***************************************************************************)
(* Texts.                                                                  *)
(***************************************************************************)
NL == "\n"
CR == "\r"

\* str.strip()/lstrip() with no argument remove these characters.
IsSpace(c) == c \in {" ", "\t", NL, CR}

RECURSIVE LStrip(_)
LStrip(s) ==
    IF s = <<>> THEN <<>>
    ELSE IF IsSpace(Head(s)) THEN LStrip(Tail(s)) ELSE s

RECURSIVE RStrip(_)
RStrip(s) ==
    IF s = <<>> THEN <<>>
    ELSE IF IsSpace(s[Len(s)]) THEN RStrip(SubSeq(s, 1, Len(s) - 1)) ELSE s

Strip(s) == LStrip(RStrip(s))

\* str.rstrip('\n'): removes every trailing newline, nothing else.
RECURSIVE RStripNL(_)
RStripNL(s) ==
    IF s = <<>> THEN <<>>
    ELSE IF s[Len(s)] = NL THEN RStripNL(SubSeq(s, 1, Len(s) - 1)) ELSE s

\* ' ' * n
Spaces(n) == [k \in 1..n |-> " "]

\* f.readlines() of a file opened in text mode (newline=None): the data cut
\* after every line terminator; the terminators "\n", "\r\n" and "\r" are
\* all read as "\n" (universal newlines).
RECURSIVE ReadLinesFrom(_, _)
ReadLinesFrom(data, cur) ==
    IF data = <<>> THEN (IF cur = <<>> THEN <<>> ELSE <<cur>>)
    ELSE IF Head(data) = NL
         THEN <<Append(cur, NL)>> \o ReadLinesFrom(Tail(data), <<>>)
    ELSE IF Head(data) = CR
         THEN <<Append(cur, NL)>> \o
              ReadLinesFrom(IF Len(data) >= 2 /\ data[2] = NL
                            THEN Tail(Tail(data)) ELSE Tail(data), <<>>)
         ELSE ReadLinesFrom(Tail(data), Append(cur, Head(data)))

ReadLines(data) == ReadLinesFrom(data, <<>>)

\* f.writelines(lines): the concatenation of the lines, nothing added; "\n"
\* is written as os.linesep, which is "\n" (POSIX).
RECURSIVE WriteLines(_)
WriteLines(ls) ==
    IF ls = <<>> THEN <<>> ELSE Head(ls) \o WriteLines(Tail(ls))

(***************************************************************************)
(* Python list operations.                                                 *)
(***************************************************************************)
\* list.pop(k), 0-based k inside the list.
Pop(ls, k) == SubSeq(ls, 1, k) \o SubSeq(ls, k + 2, Len(ls))

\* list.insert(k, x), 0 <= k <= len.
Insert(ls, k, x) == SubSeq(ls, 1, k) \o <<x>> \o SubSeq(ls, k + 1, Len(ls))

\* Mutant: the assignment lands one line further down.
SetAtNextLine(ls, p, x) == [ls EXCEPT ![IF p < Len(ls) THEN p + 1 ELSE p] = x]

\* ls with the element at 1-based position p replaced by x.
SetAt(ls, p, x) == [ls EXCEPT ![p] = x]

\* Mutant: an unstable sort, which puts x in front of the elements that have
\* its key.
RECURSIVE InsertDescUnstable(_, _)
InsertDescUnstable(s, x) ==
    IF s = <<>> THEN <<x>>
    ELSE IF Head(s).line_number > x.line_number
         THEN <<Head(s)>> \o InsertDescUnstable(Tail(s), x)
         ELSE <<x>> \o s

\* Stable insertion of x into the key-sorted sequence s: after every element
\* whose key is not "after" x (Python's sorted() is stable, also with
\* reverse=True, which keeps equal keys in input order).
RECURSIVE InsertDesc(_, _)
InsertDesc(s, x) ==
    IF s = <<>> THEN <<x>>
    ELSE IF Head(s).line_number >= x.line_number
         THEN <<Head(s)>> \o InsertDesc(Tail(s), x)
         ELSE <<x>> \o s

RECURSIVE InsertAsc(_, _)
InsertAsc(s, x) ==
    IF s = <<>> THEN <<x>>
    ELSE IF Head(s).line_number <= x.line_number
         THEN <<Head(s)>> \o InsertAsc(Tail(s), x)
         ELSE <<x>> \o s

\* Mutant: the batch is processed in input order.
NoSort(cs) == cs

\* sorted(cs, key=line_number, reverse=True)
RECURSIVE SortedDesc(_)
SortedDesc(cs) ==
    IF cs = <<>> THEN <<>>
    ELSE InsertDesc(SortedDesc(SubSeq(cs, 1, Len(cs) - 1)), cs[Len(cs)])

\* sorted(cs, key=line_number)
RECURSIVE SortedAsc(_)
SortedAsc(cs) ==
    IF cs = <<>> THEN <<>>
    ELSE InsertAsc(SortedAsc(SubSeq(cs, 1, Len(cs) - 1)), cs[Len(cs)])

(***************************************************************************)
(* Files, backups, inputs.                                                 *)
(***************************************************************************)
NoFile == [exists |-> FALSE, data |-> <<>>]
File(data) == [exists |-> TRUE, data |-> data]

\* Bodies of the lines the target file is made of (terminator not included).
FileLineTexts == { <<" ", "a">>, <<"b">> }

RECURSIVE FilesOfLength(_)
FilesOfLength(n) ==
    IF n = 0 THEN { <<>> }
    ELSE { l \o <<NL>> \o rest : l \in FileLineTexts, rest \in FilesOfLength(n - 1) }

\* Contents of the target file at the first call.
FileContents == UNION { FilesOfLength(n) : n \in 0..MaxLines }

\* Values of old_code / content (expected text) and of new_code.
OldCodes == { <<>>, <<"a", " ">> }
NewCodes == { <<>>, <<" ", "c">> }

\* Line numbers an edit may carry: 0 and MaxLines + 1 are out of range for
\* every file of the model.
LineNumbers == 0..(MaxLines + 1)

\* The edits of a batch: each expects some text or brings some.
Corrections ==
    { c \in [line_number : LineNumbers, old_code : OldCodes, new_code : NewCodes] :
        c.old_code # <<>> \/ c.new_code # <<>> }

\* Python's None as the old_code of an edit: AIAnalyzer.analyze builds the
\* items with item.get("content"), which is None when the model's answer
\* has no "content", and apply_fixes passes it on as old_code.
Null == <<"None">>
NullCorrections == [line_number : LineNumbers, old_code : { Null }, new_code : { <<>> }]

SeqsUpTo(S, n) == UNION { [1..k -> S] : k \in 0..n }

Batches == SeqsUpTo(Corrections, MaxEdits)

\* The callers of src/file_patcher.py pass no old_code.
SimpleCorrections ==
    [line_number : LineNumbers, old_code : { <<>> }, new_code : NewCodes]
SimpleBatches == SeqsUpTo(SimpleCorrections, MaxEdits)

\* An analysis of DebuggerAgent: {"delete": [...], "add": [...]}, each item
\* {"line": n, "content": text}; the field "line" is named line_number here.
Items(contents) == [line_number : LineNumbers, content : contents]

\* Texts of the lines an analysis adds.
AddContents == { <<" ", "c">>, <<"d">> }
Analyses ==
    { an \in { [delete |-> d, add |-> a] :
                 d \in SeqsUpTo(Items({ <<>> }), MaxEdits),
                 a \in SeqsUpTo(Items(AddContents), MaxEdits) } :
        Len(an.delete) + Len(an.add) <= MaxEdits }
NoAnalysis == [delete |-> <<>>, add |-> <<>>]

Variants == { "agent", "simple", "debugger" }

\* Backup paths: .backups/<stem>_<timestamp><suffix>.backup (agent, one per
\* second of the clock) and <stem>.py.bak (simple).
None == <<"none", 0>>
TimestampBackup(t) == <<"backup", t>>
BakPath == <<"bak", 0>>
BackupPaths == { TimestampBackup(t) : t \in 0..MaxTime } \cup { BakPath }

NoResult ==
    [keys |-> {}, success |-> FALSE, applied_count |-> 0,
     failed_corrections |-> <<>>, backup_path |-> None]

VARIABLES
    variant,             \* which patcher is called
    create_backup,       \* FilePatcher.create_backup
    corrections,         \* argument of apply_corrections
    analysis,            \* argument of _apply_patches
    disk,                \* the target file
    backupDir,           \* whether the .backups directory exists
    backups,             \* backup path -> file
    now,                 \* datetime.now(), in whole seconds
    pc,                  \* position in the running call
    backup_path,         \* local of apply_corrections
    lines,               \* local: the buffer
    sorted_corrections,  \* local: the batch in processing order
    idx,                 \* local: position of the loop in sorted_corrections
    applied_count,       \* local
    failed_corrections,  \* local
    result,              \* the returned dictionary
    pre,                 \* history: the target file when the call started
    writes,              \* history: open(file_path, 'w') done by the call
    calls,               \* history: calls made so far
    other,               \* the locals of a second call on the same path,
                         \* suspended while the first one takes its steps
    overlap,             \* history: the two calls were in progress together
    restored,            \* what restore_backup returned, once it was called
    flow,                \* DebugAgent: position and locals of debug, apply_fixes
                         \* and auto_fix
    process,             \* the run of the script a runner observes
    executions           \* runner -> the dictionary it returned

vars == <<variant, create_backup, corrections, analysis, disk, backupDir,
          backups, now, pc, backup_path, lines, sorted_corrections, idx,
          applied_count, failed_corrections, result, pre, writes, calls,
          other, overlap, restored, flow, process, executions>>

inputs == <<variant, create_backup, corrections, analysis>>
locals == <<backup_path, lines, sorted_corrections, idx, applied_count,
            failed_corrections>>
world  == <<disk, backupDir, backups>>
second == <<other, overlap>>
driver == <<flow, process, executions>>

\* restore_backup was not called.
NotCalled == "not called"

\* A second call that has not started yet, with its batch.
Suspended(cs) ==
    [corrections |-> cs, pc |-> "start", backup_path |-> None, lines |-> <<>>,
     sorted_corrections |-> <<>>, idx |-> 1, applied_count |-> 0,
     failed_corrections |-> <<>>, result |-> NoResult, pre |-> NoFile,
     writes |-> 0]

\* There is no second call.
Idle == [Suspended(<<>>) EXCEPT !.pc = "idle"]
NoSecondCall == other = Idle /\ overlap = FALSE /\ restored = NotCalled

\* The three runners: ScriptExecutor.execute, ScriptExecutor.execute_script
\* and the function execute_script of src/executor.py.
Runners == { "execute", "execute_script", "module_execute_script" }

\* A runner that was not called returned nothing.
NotRun == [keys |-> {}, success |-> FALSE, stdout |-> <<>>, stderr |-> <<>>]

\* The patcher is called on its own: no DebugAgent, no runner.
NoFlow == [pc |-> "none"]
NoProcess == [script_exists |-> FALSE]
NoDriver ==
    /\ flow = NoFlow
    /\ process = NoProcess
    /\ executions = [r \in Runners |-> NotRun]

\* The patcher at rest on the file f: constructed, not called.
PatcherNotCalled(f) ==
    /\ variant = "agent"
    /\ create_backup = TRUE
    /\ corrections = <<>>
    /\ analysis = NoAnalysis
    /\ disk = f
    /\ pre = f
    /\ pc = "idle"
    /\ backup_path = None
    /\ lines = <<>>
    /\ sorted_corrections = <<>>
    /\ idx = 1
    /\ applied_count = 0
    /\ failed_corrections = <<>>
    /\ result = NoResult
    /\ writes = 0
    /\ calls = 0
    /\ backupDir = FALSE
    /\ now = 0
    /\ NoSecondCall

\* The state in which a call of the chosen patcher starts.
CallStarts(v, cb, cs, an, f) ==
    /\ variant = v
    /\ create_backup = cb
    /\ corrections = cs
    /\ analysis = an
    /\ disk = f
    /\ pre = f
    /\ pc = "start"
    /\ backup_path = None
    /\ lines = <<>>
    /\ sorted_corrections = <<>>
    /\ idx = 1
    /\ applied_count = 0
    /\ failed_corrections = <<>>
    /\ result = NoResult
    /\ writes = 0

Init ==
    /\ backupDir = FALSE
    /\ backups = [p \in BackupPaths |-> NoFile]
    /\ now = 0
    /\ calls = 1
    /\ NoSecondCall
    /\ NoDriver
    /\ \E f \in { File(d) : d \in FileContents } \cup { NoFile } :
          \/ \E cb \in BOOLEAN, cs \in Batches :
                CallStarts("agent", cb, cs, NoAnalysis, f)
          \/ \E cs \in SimpleBatches :
                CallStarts("simple", TRUE, cs, NoAnalysis, f)
          \/ \E an \in Analyses :
                CallStarts("debugger", FALSE, <<>>, an, f)

(***************************************************************************)
(* FilePatcher.apply_corrections of src/agent/file_patcher.py.             *)
(***************************************************************************)
\* Mutant: the lower bound of the line-number check is forgotten.
ValidLineNumberNoLowerBound(line_num, n) == line_num <= n

\* if line_num < 1 or line_num > len(lines): the edit is refused.
ValidLineNumber(line_num, n) == line_num >= 1 /\ line_num <= n

\* Python's list index k on a list of n elements: 0-based, a negative index
\* counts from the end, anything else raises IndexError.
IndexOk(k, n) == -n <= k /\ k < n
Position(k, n) == IF k >= 0 THEN k + 1 ELSE n + k + 1

\* Mutant: no content check, every in-range edit is applied.
ContentMatchesAlways(current_line, old_code) == TRUE

\* current_line.strip() != old_code.strip() refuses the edit.
ContentMatches(current_line, old_code) == Strip(current_line) = Strip(old_code)

\* indent = len(current_line) - len(current_line.lstrip())
Indent(current_line) == Len(current_line) - Len(LStrip(current_line))

\* ' ' * indent + new_code + '\n'
PatchedLine(current_line, new_code) ==
    Spaces(Indent(current_line)) \o new_code \o <<NL>>

InvalidLine(line_num) == [line |-> line_num, reason |-> "Invalid line number"]
Mismatch(line_num) == [line |-> line_num, reason |-> "Line content mismatch"]

NotFoundResult ==
    [NoResult EXCEPT !.keys = {"success", "message", "applied_count"}]

\* Mutant: the result counts every submitted edit as applied.
SuccessResultCountsAll(n, failed, path) ==
    [keys |-> {"success", "message", "applied_count", "failed_corrections",
               "backup_path"},
     success |-> TRUE, applied_count |-> n + Len(failed),
     failed_corrections |-> failed, backup_path |-> path]

SuccessResult(n, failed, path) ==
    [keys |-> {"success", "message", "applied_count", "failed_corrections",
               "backup_path"},
     success |-> TRUE, applied_count |-> n, failed_corrections |-> failed,
     backup_path |-> path]

ErrorResult(path) ==
    [keys |-> {"success", "message", "applied_count", "backup_path"},
     success |-> FALSE, applied_count |-> 0, failed_corrections |-> <<>>,
     backup_path |-> path]

\* Mutant: the backup is skipped although create_backup is set.
CheckExistsSkipsBackup ==
    /\ variant = "agent"
    /\ pc = "start"
    /\ IF ~disk.exists
       THEN /\ result' = NotFoundResult
            /\ pc' = "done"
       ELSE /\ result' = result
            /\ pc' = "read"
    /\ UNCHANGED <<driver, inputs, second, restored, world, now, locals, pre, writes, calls>>

\* Mutant: no existence check, the call goes on with a missing file.
CheckExistsAlwaysProceeds ==
    /\ variant = "agent"
    /\ pc = "start"
    /\ result' = result
    /\ pc' = IF create_backup THEN "backup" ELSE "read"
    /\ UNCHANGED <<driver, inputs, second, restored, world, now, locals, pre, writes, calls>>

\* if not file_path.exists(): return {...}; otherwise on to the backup.
CheckExists ==
    /\ variant = "agent"
    /\ pc = "start"
    /\ IF ~disk.exists
       THEN /\ result' = NotFoundResult
            /\ pc' = "done"
       ELSE /\ result' = result
            /\ pc' = IF create_backup THEN "backup" ELSE "read"
    /\ UNCHANGED <<driver, inputs, second, restored, world, now, locals, pre, writes, calls>>

\* _create_backup: mkdir(exist_ok=True), then copy2 to the timestamped path.
\* copy2 of a missing file raises after the directory was made.
CreateBackup ==
    /\ variant = "agent"
    /\ pc = "backup"
    /\ backupDir' = TRUE
    /\ IF disk.exists
       THEN /\ backups' = [backups EXCEPT ![TimestampBackup(now)] = disk]
            /\ backup_path' = TimestampBackup(now)
            /\ pc' = "read"
       ELSE /\ UNCHANGED <<backups, backup_path>>
            /\ pc' = "raised"
    /\ UNCHANGED <<driver, inputs, second, restored, disk, now, lines, sorted_corrections, idx,
                   applied_count, failed_corrections, result, pre, writes,
                   calls>>

\* lines = f.readlines(); sorted_corrections = sorted(..., reverse=True);
\* applied_count = 0; failed_corrections = [].
ReadFile ==
    /\ variant = "agent"
    /\ pc = "read"
    /\ IF disk.exists
       THEN /\ lines' = ReadLines(disk.data)
            /\ sorted_corrections' = SortedDesc(corrections)
            /\ pc' = "loop"
       ELSE \* FileNotFoundError, caught by "except Exception"
            /\ UNCHANGED <<lines, sorted_corrections>>
            /\ pc' = "except"
    /\ idx' = 1
    /\ applied_count' = 0
    /\ failed_corrections' = <<>>
    /\ UNCHANGED <<driver, inputs, second, restored, world, now, backup_path, result, pre, writes, calls>>

\* One iteration of "for correction in sorted_corrections".
ApplyCorrection ==
    /\ variant = "agent"
    /\ pc = "loop"
    /\ idx <= Len(sorted_corrections)
    /\ LET correction == sorted_corrections[idx]
           line_num == correction.line_number
           old_code == correction.old_code
           new_code == correction.new_code
           line_index == line_num - 1
           n == Len(lines)
       IN  IF ~ValidLineNumber(line_num, n)
           THEN /\ failed_corrections' =
                       Append(failed_corrections, InvalidLine(line_num))
                /\ idx' = idx + 1
                /\ UNCHANGED <<lines, applied_count, pc>>
           ELSE IF ~IndexOk(line_index, n)
           THEN \* IndexError, caught by "except Exception"
                /\ pc' = "except"
                /\ UNCHANGED <<lines, applied_count, failed_corrections, idx>>
           ELSE IF old_code = Null
           THEN \* old_code.strip() on None: AttributeError, caught likewise
                /\ pc' = "except"
                /\ UNCHANGED <<lines, applied_count, failed_corrections, idx>>
           ELSE LET current_line == RStripNL(lines[Position(line_index, n)])
                IN  IF ~ContentMatches(current_line, old_code)
                    THEN /\ failed_corrections' =
                                Append(failed_corrections, Mismatch(line_num))
                         /\ idx' = idx + 1
                         /\ UNCHANGED <<lines, applied_count, pc>>
                    ELSE /\ lines' = SetAt(lines, Position(line_index, n),
                                           PatchedLine(current_line, new_code))
                         /\ applied_count' = applied_count + 1
                         /\ idx' = idx + 1
                         /\ UNCHANGED <<failed_corrections, pc>>
    /\ UNCHANGED <<driver, inputs, second, restored, world, now, backup_path, sorted_corrections,
                   result, pre, writes, calls>>

\* Mutant: the file is written from inside the loop, before the last edit.
OpenForWriteInLoop ==
    /\ variant = "agent"
    /\ pc = "loop"
    /\ writes' = writes + 1
    /\ \/ /\ disk' = File(<<>>)
          /\ pc' = "write"
       \/ /\ disk' = disk
          /\ pc' = "except"
    /\ UNCHANGED <<driver, inputs, second, restored, backupDir, backups, now, locals, result, pre, calls>>

\* open(file_path, 'w'): the file is truncated at once; the open may be
\* refused (permissions), which leaves the file as it was.
OpenForWrite ==
    /\ variant = "agent"
    /\ pc = "loop"
    /\ idx > Len(sorted_corrections)
    /\ writes' = writes + 1
    /\ \/ /\ disk' = File(<<>>)
          /\ pc' = "write"
       \/ /\ disk' = disk
          /\ pc' = "except"
    /\ UNCHANGED <<driver, inputs, second, restored, backupDir, backups, now, locals, result, pre, calls>>

\* f.writelines(lines) and the close: either the whole buffer reaches the
\* file and the call returns, or the storage refuses the data after some of
\* the lines (disk full), which leaves a truncated file.
WriteFile ==
    /\ variant = "agent"
    /\ pc = "write"
    /\ \/ /\ disk' = File(WriteLines(lines))
          /\ result' = SuccessResult(applied_count, failed_corrections,
                                     backup_path)
          /\ pc' = "done"
       \/ /\ \E k \in 0..(Len(lines) - 1) :
                disk' = File(WriteLines(SubSeq(lines, 1, k)))
          /\ result' = result
          /\ pc' = "except"
    /\ UNCHANGED <<driver, inputs, second, restored, backupDir, backups, now, locals, pre, writes, calls>>

\* except Exception: restore the backup if there is one, return the failure.
\* The restoring copy2 may fail too, and then its exception leaves the call.
HandleError ==
    /\ variant = "agent"
    /\ pc = "except"
    /\ IF backup_path # None /\ backups[backup_path].exists
       THEN \/ /\ disk' = backups[backup_path]
               /\ result' = ErrorResult(backup_path)
               /\ pc' = "done"
            \/ /\ UNCHANGED <<disk, result>>
               /\ pc' = "raised"
       ELSE /\ disk' = disk
            /\ result' = ErrorResult(backup_path)
            /\ pc' = "done"
    /\ UNCHANGED <<driver, inputs, second, restored, backupDir, backups, now, locals, pre, writes, calls>>

\* The whole loop as a function of the buffer and of the edits in processing
\* order: the buffer, the count and the failed list it ends with, and
\* whether an edit without expected content made it raise.
RECURSIVE LoopOutcome(_, _, _, _)
LoopOutcome(ls, cs, count, failed) ==
    IF cs = <<>>
    THEN [lines |-> ls, applied_count |-> count, failed_corrections |-> failed,
          raised |-> FALSE]
    ELSE LET correction == Head(cs)
             line_num == correction.line_number
         IN  IF ~ValidLineNumber(line_num, Len(ls))
             THEN LoopOutcome(ls, Tail(cs), count,
                              Append(failed, InvalidLine(line_num)))
             ELSE IF correction.old_code = Null
             THEN [lines |-> ls, applied_count |-> count,
                   failed_corrections |-> failed, raised |-> TRUE]
             ELSE LET current_line == RStripNL(ls[line_num])
                  IN  IF ~ContentMatches(current_line, correction.old_code)
                      THEN LoopOutcome(ls, Tail(cs), count,
                                       Append(failed, Mismatch(line_num)))
                      ELSE LoopOutcome(
                               SetAt(ls, line_num,
                                     PatchedLine(current_line, correction.new_code)),
                               Tail(cs), count + 1, failed)

\* The outcome of the loop of apply_corrections for a file and a batch.
Outcome(data, cs) == LoopOutcome(ReadLines(data), SortedDesc(cs), 0, <<>>)

AgentStep ==
    \/ CheckExists
    \/ CreateBackup
    \/ ReadFile
    \/ ApplyCorrection
    \/ OpenForWrite
    \/ WriteFile
    \/ HandleError

(***************************************************************************)
(* FilePatcher.apply_corrections of src/file_patcher.py: no existence      *)
(* check, one fixed backup path, no content check, no failure list, no     *)
(* exception handler.                                                      *)
(***************************************************************************)
\* if 0 <= line_num < len(lines), line_num already 0-based
SimpleInRange(line_num, n) == 0 <= line_num /\ line_num < n

\* The whole loop over sorted(corrections, reverse=True).
RECURSIVE SimpleApplyAll(_, _)
SimpleApplyAll(ls, cs) ==
    IF cs = <<>> THEN ls
    ELSE LET line_num == Head(cs).line_number - 1
         IN  SimpleApplyAll(
                 IF SimpleInRange(line_num, Len(ls))
                 THEN SetAt(ls, line_num + 1, Head(cs).new_code \o <<NL>>)
                 ELSE ls,
                 Tail(cs))

SimpleResult(cs) ==
    [keys |-> {"success", "applied_count", "backup_path"}, success |-> TRUE,
     applied_count |-> Len(cs), failed_corrections |-> <<>>,
     backup_path |-> BakPath]

\* backup_path = script.with_suffix('.py.bak'); copy(script, backup_path)
SimpleBackup ==
    /\ variant = "simple"
    /\ pc = "start"
    /\ IF disk.exists
       THEN /\ backups' = [backups EXCEPT ![BakPath] = disk]
            /\ backup_path' = BakPath
            /\ pc' = "read"
       ELSE /\ UNCHANGED <<backups, backup_path>>
            /\ pc' = "raised"
    /\ UNCHANGED <<driver, inputs, second, restored, disk, backupDir, now, lines, sorted_corrections,
                   idx, applied_count, failed_corrections, result, pre,
                   writes, calls>>

\* readlines() and the loop, which works on the buffer only.
SimpleReadAndApply ==
    /\ variant = "simple"
    /\ pc = "read"
    /\ sorted_corrections' = SortedDesc(corrections)
    /\ lines' = SimpleApplyAll(ReadLines(disk.data), SortedDesc(corrections))
    /\ idx' = Len(corrections) + 1
    /\ pc' = "loop"
    /\ UNCHANGED <<driver, inputs, second, restored, world, now, backup_path, applied_count,
                   failed_corrections, result, pre, writes, calls>>

\* open(script, 'w'); a refusal is not caught.
SimpleOpenForWrite ==
    /\ variant = "simple"
    /\ pc = "loop"
    /\ writes' = writes + 1
    /\ \/ /\ disk' = File(<<>>)
          /\ pc' = "write"
       \/ /\ disk' = disk
          /\ pc' = "raised"
    /\ UNCHANGED <<driver, inputs, second, restored, backupDir, backups, now, locals, result, pre, calls>>

\* f.writelines(lines) and the return; a failure is not caught.
SimpleWriteFile ==
    /\ variant = "simple"
    /\ pc = "write"
    /\ \/ /\ disk' = File(WriteLines(lines))
          /\ result' = SimpleResult(corrections)
          /\ pc' = "done"
       \/ /\ \E k \in 0..(Len(lines) - 1) :
                disk' = File(WriteLines(SubSeq(lines, 1, k)))
          /\ result' = result
          /\ pc' = "raised"
    /\ UNCHANGED <<driver, inputs, second, restored, backupDir, backups, now, locals, pre, writes, calls>>

SimpleStep ==
    \/ SimpleBackup
    \/ SimpleReadAndApply
    \/ SimpleOpenForWrite
    \/ SimpleWriteFile

(***************************************************************************)
(* DebuggerAgent._apply_patches of src/agent/debugger_agent.py: deletions  *)
(* pop lines in descending order, additions insert lines in ascending      *)
(* order; no backup, no content check, no result.                          *)
(***************************************************************************)
\* for delete_item in sorted(deletes, reverse=True): lines.pop(line_no - 1)
RECURSIVE PopAll(_, _)
PopAll(ls, ds) ==
    IF ds = <<>> THEN ls
    ELSE LET line_no == Head(ds).line_number
         IN  PopAll(IF 1 <= line_no /\ line_no <= Len(ls)
                    THEN Pop(ls, line_no - 1)
                    ELSE ls,
                    Tail(ds))

\* for add_item in sorted(adds): lines.insert(line_no, content + "\n")
RECURSIVE InsertAll(_, _)
InsertAll(ls, as) ==
    IF as = <<>> THEN ls
    ELSE LET line_no == Head(as).line_number
         IN  InsertAll(IF 0 <= line_no /\ line_no <= Len(ls)
                       THEN Insert(ls, line_no, Head(as).content \o <<NL>>)
                       ELSE ls,
                       Tail(as))

\* The order in which the deletions are processed.
DeleteOrder(ds) == SortedDesc(ds)

\* The order in which the additions are processed.
AddOrder(as) == SortedAsc(as)

\* open(script_path, "r") of a missing file raises; otherwise the buffer is
\* read and both loops run on it.
DebuggerReadAndPatch ==
    /\ variant = "debugger"
    /\ pc = "start"
    /\ IF disk.exists
       THEN /\ lines' = InsertAll(PopAll(ReadLines(disk.data),
                                         DeleteOrder(analysis.delete)),
                                  AddOrder(analysis.add))
            /\ pc' = "loop"
       ELSE /\ lines' = lines
            /\ pc' = "raised"
    /\ UNCHANGED <<driver, inputs, second, restored, world, now, backup_path, sorted_corrections, idx,
                   applied_count, failed_corrections, result, pre, writes,
                   calls>>

\* open(script_path, "w")
DebuggerOpenForWrite ==
    /\ variant = "debugger"
    /\ pc = "loop"
    /\ writes' = writes + 1
    /\ \/ /\ disk' = File(<<>>)
          /\ pc' = "write"
       \/ /\ disk' = disk
          /\ pc' = "raised"
    /\ UNCHANGED <<driver, inputs, second, restored, backupDir, backups, now, locals, result, pre, calls>>

\* f.writelines(lines); the method returns nothing.
DebuggerWriteFile ==
    /\ variant = "debugger"
    /\ pc = "write"
    /\ \/ /\ disk' = File(WriteLines(lines))
          /\ pc' = "done"
       \/ /\ \E k \in 0..(Len(lines) - 1) :
                disk' = File(WriteLines(SubSeq(lines, 1, k)))
          /\ pc' = "raised"
    /\ UNCHANGED <<driver, inputs, second, restored, backupDir, backups, now, locals, result, pre,
                   writes, calls>>

DebuggerStep ==
    \/ DebuggerReadAndPatch
    \/ DebuggerOpenForWrite
    \/ DebuggerWriteFile

Next == AgentStep \/ SimpleStep \/ DebuggerStep

Spec == Init /\ [][Next]_vars

(***************************************************************************)
(* Several calls on the same file, one after the other, with the wall      *)
(* clock that names the backups.                                           *)
(***************************************************************************)
\* Batches of the calls of SpecRepeat.
RepeatBatches == SeqsUpTo(Corrections, 1)

\* The clock advances between two calls (it is read by _create_backup only).
Tick ==
    /\ pc = "done"
    /\ now < MaxTime
    /\ now' = now + 1
    /\ UNCHANGED <<driver, inputs, second, restored, world, pc, locals, result, pre, writes, calls>>

\* The caller applies another batch to the same file with the same patcher.
CallAgain ==
    /\ pc = "done"
    /\ calls <= MaxCalls
    /\ calls' = calls + 1
    /\ \E cs \in (IF variant = "simple" THEN SimpleBatches ELSE Batches)
                    \cap RepeatBatches :
          corrections' = cs
    /\ pre' = disk
    /\ pc' = "start"
    /\ backup_path' = None
    /\ lines' = <<>>
    /\ sorted_corrections' = <<>>
    /\ idx' = 1
    /\ applied_count' = 0
    /\ failed_corrections' = <<>>
    /\ result' = NoResult
    /\ writes' = 0
    /\ UNCHANGED <<driver, variant, create_backup, analysis, world, now, second,
                   restored>>

InitRepeat ==
    /\ backupDir = FALSE
    /\ backups = [p \in BackupPaths |-> NoFile]
    /\ now = 0
    /\ calls = 1
    /\ NoSecondCall
    /\ NoDriver
    /\ \E d \in FilesOfLength(MaxLines) :
          \/ \E cb \in BOOLEAN, cs \in RepeatBatches :
                CallStarts("agent", cb, cs, NoAnalysis, File(d))
          \/ \E cs \in SimpleBatches \cap RepeatBatches :
                CallStarts("simple", TRUE, cs, NoAnalysis, File(d))

NextRepeat == AgentStep \/ SimpleStep \/ Tick \/ CallAgain

SpecRepeat == InitRepeat /\ [][NextRepeat]_vars

(***************************************************************************)
(* Calls of the agent patcher whose batch may hold edits without expected  *)
(* content (old_code None).                                                *)
(***************************************************************************)
NullBatches == SeqsUpTo(Corrections \cup NullCorrections, MaxEdits)

InitNull ==
    /\ backupDir = FALSE
    /\ backups = [p \in BackupPaths |-> NoFile]
    /\ now = 0
    /\ calls = 1
    /\ NoSecondCall
    /\ NoDriver
    /\ \E d \in FilesOfLength(MaxLines), cb \in BOOLEAN, cs \in NullBatches :
          CallStarts("agent", cb, cs, NoAnalysis, File(d))

NextNull == AgentStep

SpecNull == InitNull /\ [][NextNull]_vars

(***************************************************************************)
(* Calls of the agent patcher on files with any line terminators, the last *)
(* line with or without one.                                               *)
(***************************************************************************)
Terminators == { <<NL>>, <<CR, NL>> }

RECURSIVE TerminatedFiles(_)
TerminatedFiles(n) ==
    IF n = 0 THEN { <<>> }
    ELSE { l \o t \o rest : l \in FileLineTexts, t \in Terminators,
                            rest \in TerminatedFiles(n - 1) }

ByteFiles ==
    UNION { TerminatedFiles(n) : n \in 0..MaxLines }
    \cup UNION { { d \o l : d \in TerminatedFiles(n - 1), l \in FileLineTexts } :
                  n \in 1..MaxLines }

InitBytes ==
    /\ backupDir = FALSE
    /\ backups = [p \in BackupPaths |-> NoFile]
    /\ now = 0
    /\ calls = 1
    /\ NoSecondCall
    /\ NoDriver
    /\ \E d \in ByteFiles, cb \in BOOLEAN, cs \in RepeatBatches :
          CallStarts("agent", cb, cs, NoAnalysis, File(d))

NextBytes == AgentStep

SpecBytes == InitBytes /\ [][NextBytes]_vars

(***************************************************************************)
(* Two calls of the agent patcher on the same path, by two threads or two  *)
(* processes that share nothing but the file system.  The steps of a call  *)
(* are those of AgentStep; Switch hands the processor to the other call.   *)
(***************************************************************************)
\* Batches of the two calls: one replacement each, expecting the text " a".
ConcurrentBatches ==
    { <<c>> : c \in { x \in Corrections :
                        x.old_code = <<"a", " ">> /\ x.new_code # <<>> } }

Finished(p) == p \in {"done", "raised"}

\* The running call is suspended and the other one resumes (or starts, and
\* then finds the file as it is by now).  apply_corrections takes no lock,
\* so this can happen between any two steps.
Switch ==
    /\ pc # "start"
    /\ other.pc # "idle"
    /\ ~Finished(other.pc)
    /\ other' = [corrections |-> corrections, pc |-> pc,
                 backup_path |-> backup_path, lines |-> lines,
                 sorted_corrections |-> sorted_corrections, idx |-> idx,
                 applied_count |-> applied_count,
                 failed_corrections |-> failed_corrections,
                 result |-> result, pre |-> pre, writes |-> writes]
    /\ corrections' = other.corrections
    /\ pc' = other.pc
    /\ backup_path' = other.backup_path
    /\ lines' = other.lines
    /\ sorted_corrections' = other.sorted_corrections
    /\ idx' = other.idx
    /\ applied_count' = other.applied_count
    /\ failed_corrections' = other.failed_corrections
    /\ result' = other.result
    /\ pre' = IF other.pc = "start" THEN disk ELSE other.pre
    /\ writes' = other.writes
    /\ overlap' = (overlap \/ ~Finished(pc))
    /\ UNCHANGED <<driver, variant, create_backup, analysis, world, now, calls,
                   restored>>

\* The wall clock advances, at any time.
ClockTick ==
    /\ now < MaxTime
    /\ now' = now + 1
    /\ UNCHANGED <<driver, inputs, second, restored, world, pc, locals, result, pre, writes, calls>>

InitConcurrent ==
    /\ backupDir = FALSE
    /\ backups = [p \in BackupPaths |-> NoFile]
    /\ now = 0
    /\ calls = 2
    /\ overlap = FALSE
    /\ restored = NotCalled
    /\ NoDriver
    /\ \E d \in FilesOfLength(MaxLines), cb \in BOOLEAN,
          cs1 \in ConcurrentBatches, cs2 \in ConcurrentBatches :
          /\ CallStarts("agent", cb, cs1, NoAnalysis, File(d))
          /\ other = Suspended(cs2)

NextConcurrent == AgentStep \/ Switch \/ ClockTick

SpecConcurrent == InitConcurrent /\ [][NextConcurrent]_vars

(***************************************************************************)
(* FilePatcher.restore_backup, called after apply_corrections returned.    *)
(***************************************************************************)
\* Mutant: True is returned without the copy.
RestoreBackupNoCopy ==
    /\ variant = "agent"
    /\ pc = "done"
    /\ \E path \in BackupPaths :
          /\ backup_path' = path
          /\ disk' = disk
          /\ restored' = IF backups[path].exists THEN "True" ELSE "False"
    /\ pc' = "restored"
    /\ UNCHANGED <<driver, inputs, second, backupDir, backups, now, lines,
                   sorted_corrections, idx, applied_count, failed_corrections,
                   result, pre, writes, calls>>

\* restore_backup(file_path, backup_path): False if the backup does not
\* exist; otherwise copy2 over the target and True, or False when the copy
\* raises ("except Exception"), having touched the target or not.
RestoreBackup ==
    /\ variant = "agent"
    /\ pc = "done"
    /\ \E path \in BackupPaths :
          /\ backup_path' = path
          /\ IF ~backups[path].exists
             THEN /\ disk' = disk
                  /\ restored' = "False"
             ELSE \/ /\ disk' = backups[path]
                     /\ restored' = "True"
                  \/ /\ disk' \in { disk, File(<<>>) }
                     /\ restored' = "False"
    /\ pc' = "restored"
    /\ UNCHANGED <<driver, inputs, second, backupDir, backups, now, lines,
                   sorted_corrections, idx, applied_count, failed_corrections,
                   result, pre, writes, calls>>

InitRestore ==
    /\ backupDir = FALSE
    /\ backups = [p \in BackupPaths |-> NoFile]
    /\ now = 0
    /\ calls = 1
    /\ NoSecondCall
    /\ NoDriver
    /\ \E d \in FilesOfLength(MaxLines), cb \in BOOLEAN, cs \in Batches :
          CallStarts("agent", cb, cs, NoAnalysis, File(d))

NextRestore == AgentStep \/ RestoreBackup

SpecRestore == InitRestore /\ [][NextRestore]_vars

(***************************************************************************)
(* The same batch applied twice: the caller passes the list it has already  *)
(* applied to the file the first call wrote.                               *)
(***************************************************************************)
\* Edits that re-indent a line: the text they bring is the text they expect.
IndentationFixes ==
    [line_number : 1..MaxLines, old_code : { <<"a", " ">> },
     new_code : { <<" ", "a">> }]

ReapplyBatches == Batches \cup { <<c>> : c \in IndentationFixes }

\* apply_corrections(file_path, corrections) once more, after a call that
\* returned a success.
Reapply ==
    /\ variant = "agent"
    /\ pc = "done"
    /\ result.success
    /\ calls = 1
    /\ calls' = 2
    /\ pre' = disk
    /\ pc' = "start"
    /\ backup_path' = None
    /\ lines' = <<>>
    /\ sorted_corrections' = <<>>
    /\ idx' = 1
    /\ applied_count' = 0
    /\ failed_corrections' = <<>>
    /\ result' = NoResult
    /\ writes' = 0
    /\ UNCHANGED <<driver, inputs, world, now, second, restored>>

InitReapply ==
    /\ backupDir = FALSE
    /\ backups = [p \in BackupPaths |-> NoFile]
    /\ now = 0
    /\ calls = 1
    /\ NoSecondCall
    /\ NoDriver
    /\ \E d \in FilesOfLength(MaxLines), cs \in ReapplyBatches :
          CallStarts("agent", TRUE, cs, NoAnalysis, File(d))

NextReapply == AgentStep \/ Reapply

SpecReapply == InitReapply /\ [][NextReapply]_vars

(***************************************************************************)
(* The runners: src/agent/executor.py and src/executor.py.  A run of the   *)
(* script is what subprocess.run observes: the exit code of the process    *)
(* and what it wrote on its two streams.                                   *)
(***************************************************************************)
ReturnCodes == { 0, 1 }
Stdouts == { <<>>, <<"o">> }
Stderrs == { <<>>, <<"w">> }

\* python <missing file>: exit code 2 and a message on stderr.
CannotOpen ==
    [script_exists |-> FALSE, returncode |-> 2, stdout |-> <<>>,
     stderr |-> <<"can't open file">>, timed_out |-> FALSE]

\* timed_out: the script runs for more than the 30 seconds execute_script
\* grants; the other runners wait for its end.
Processes ==
    [script_exists : { TRUE }, returncode : ReturnCodes, stdout : Stdouts,
     stderr : Stderrs, timed_out : BOOLEAN] \cup { CannotOpen }

ExecutionKeys == { "success", "stdout", "stderr", "traceback" }
ExecuteScriptKeys == { "success", "stdout", "stderr", "return_code", "error_type" }

\* ScriptExecutor.execute: success = len(stderr) == 0.
Execute(p) ==
    IF ~p.script_exists
    THEN [keys |-> ExecutionKeys, success |-> FALSE, stdout |-> <<>>,
          stderr |-> <<"Script not found">>]
    ELSE [keys |-> ExecutionKeys, success |-> (Len(p.stderr) = 0),
          stdout |-> p.stdout, stderr |-> p.stderr]

\* ScriptExecutor.execute_script: success = result.returncode == 0, and a
\* failure for a missing script or an expired timeout.
ExecuteScript(p) ==
    IF ~p.script_exists
    THEN [keys |-> ExecuteScriptKeys, success |-> FALSE, stdout |-> <<>>,
          stderr |-> <<"Script not found">>]
    ELSE IF p.timed_out
    THEN [keys |-> ExecuteScriptKeys, success |-> FALSE, stdout |-> <<>>,
          stderr |-> <<"Script execution timed out">>]
    ELSE [keys |-> ExecuteScriptKeys, success |-> (p.returncode = 0),
          stdout |-> p.stdout, stderr |-> p.stderr]

\* execute_script of src/executor.py: "success": result.returncode == 0,
\* with no check that the script exists.
ModuleExecuteScript(p) ==
    [keys |-> ExecutionKeys, success |-> (p.returncode = 0),
     stdout |-> p.stdout, stderr |-> p.stderr]

\* One runner is called on the script.
RunExecute ==
    /\ executions["execute"] = NotRun
    /\ executions' = [executions EXCEPT !["execute"] = Execute(process)]
    /\ UNCHANGED <<flow, process, inputs, second, restored, world, now, pc,
                   locals, result, pre, writes, calls>>

RunExecuteScript ==
    /\ executions["execute_script"] = NotRun
    /\ executions' =
          [executions EXCEPT !["execute_script"] = ExecuteScript(process)]
    /\ UNCHANGED <<flow, process, inputs, second, restored, world, now, pc,
                   locals, result, pre, writes, calls>>

RunModuleExecuteScript ==
    /\ executions["module_execute_script"] = NotRun
    /\ executions' =
          [executions EXCEPT
              !["module_execute_script"] = ModuleExecuteScript(process)]
    /\ UNCHANGED <<flow, process, inputs, second, restored, world, now, pc,
                   locals, result, pre, writes, calls>>

InitRunners ==
    /\ flow = NoFlow
    /\ executions = [r \in Runners |-> NotRun]
    /\ backups = [b \in BackupPaths |-> NoFile]
    /\ \E p \in Processes :
          /\ process = p
          /\ PatcherNotCalled(IF p.script_exists THEN File(<<>>) ELSE NoFile)

NextRunners == RunExecute \/ RunExecuteScript \/ RunModuleExecuteScript

SpecRunners == InitRunners /\ [][NextRunners]_vars

(***************************************************************************)
(* DebugAgent of src/agent/main.py: debug, apply_fixes and auto_fix, with  *)
(* ScriptExecutor.execute as runner, AIAnalyzer.analyze as analyzer and    *)
(* FilePatcher(create_backup=True) as patcher.                             *)
(***************************************************************************)
\* The scripts DebugAgent is given: lines indented with a space, with a tab,
\* or not at all.
TAB == "\t"
ScriptLineTexts == FileLineTexts \cup { <<TAB, "a">> }

RECURSIVE ScriptsOfLength(_)
ScriptsOfLength(n) ==
    IF n = 0 THEN { <<>> }
    ELSE { l \o <<NL>> \o rest : l \in ScriptLineTexts, rest \in ScriptsOfLength(n - 1) }

Scripts == { File(d) : d \in ScriptsOfLength(MaxLines) } \cup { NoFile }

\* What the model answers: "lines_to_delete" and "lines_to_add", each item
\* {"line_number": n, "content": text}.
DeleteContents == { <<"a", " ">> }
FlowAddContents == { <<"c">> }
FlowItems(contents) == [line_number : 1..MaxLines, content : contents]

AnalysisKeys == { "is_code_bug", "lines_to_delete", "lines_to_add" }

\* The answers of the LLM service: the call raises, the content holds no
\* JSON, or it is a JSON object that has the three fields or lacks
\* is_code_bug.
CallRaises == [kind |-> "raises", keys |-> {}, is_code_bug |-> FALSE,
               lines_to_delete |-> <<>>, lines_to_add |-> <<>>]
NotJson == [CallRaises EXCEPT !.kind = "not json"]
Answers ==
    { CallRaises, NotJson } \cup
    { a \in [kind : { "json" },
             keys : { AnalysisKeys, AnalysisKeys \ { "is_code_bug" } },
             is_code_bug : BOOLEAN,
             lines_to_delete : SeqsUpTo(FlowItems(DeleteContents), MaxEdits),
             lines_to_add : SeqsUpTo(FlowItems(FlowAddContents), MaxEdits)] :
        /\ Len(a.lines_to_delete) + Len(a.lines_to_add) <= MaxEdits
        /\ ("is_code_bug" \notin a.keys) => ~a.is_code_bug }

\* Mutant: the dictionary of the except branch flags a code bug.
AnalyzerFailureFlagsBug ==
    [is_code_bug |-> TRUE, error_type |-> "AI_ERROR",
     lines_to_delete |-> <<>>, lines_to_add |-> <<>>]

\* The dictionary of "except Exception" in AIAnalyzer.analyze.
AnalyzerFailure ==
    [is_code_bug |-> FALSE, error_type |-> "AI_ERROR",
     lines_to_delete |-> <<>>, lines_to_add |-> <<>>]

\* _validate_response: a missing is_code_bug becomes False, missing lists
\* become [].
ValidateResponse(a) ==
    [is_code_bug |-> IF "is_code_bug" \in a.keys THEN a.is_code_bug ELSE FALSE,
     error_type |-> "",
     lines_to_delete |->
        IF "lines_to_delete" \in a.keys THEN a.lines_to_delete ELSE <<>>,
     lines_to_add |->
        IF "lines_to_add" \in a.keys THEN a.lines_to_add ELSE <<>>]

\* AIAnalyzer.analyze: the validated answer, or the failure dictionary when
\* the call or json.loads raised.
Analyze(a) == IF a.kind = "json" THEN ValidateResponse(a) ELSE AnalyzerFailure

NotAnalyzed ==
    [is_code_bug |-> FALSE, error_type |-> "none",
     lines_to_delete |-> <<>>, lines_to_add |-> <<>>]

\* Mutant: every analysed script needs fixing.
NeedsFixingAlways(an) == TRUE

\* "needs_fixing": analysis["is_code_bug"]
NeedsFixing(an) == an.is_code_bug

\* The dictionaries debug returns.
NoDebugResult == [keys |-> {}, success |-> FALSE, needs_fixing |-> FALSE]
ScriptNotFound ==
    [keys |-> { "success", "error" }, success |-> FALSE, needs_fixing |-> FALSE]
NothingToFix ==
    [keys |-> { "success", "needs_fixing", "execution" },
     success |-> TRUE, needs_fixing |-> FALSE]
Debugged(an) ==
    [keys |-> { "success", "needs_fixing", "execution", "analysis", "script_path" },
     success |-> TRUE, needs_fixing |-> NeedsFixing(an)]

\* {"success": False, "message": "Aucune correction a appliquer"}
NothingToApply ==
    [keys |-> { "success", "message" }, success |-> FALSE, applied_count |-> 0,
     failed_corrections |-> <<>>, backup_path |-> None]

\* apply_fixes builds the batch: the deletions (old_code the content,
\* new_code ""), then the additions (old_code "", new_code the content).
BuildCorrections(an) ==
    [i \in DOMAIN an.lines_to_delete |->
        [line_number |-> an.lines_to_delete[i].line_number,
         old_code |-> an.lines_to_delete[i].content,
         new_code |-> <<>>]]
    \o
    [i \in DOMAIN an.lines_to_add |->
        [line_number |-> an.lines_to_add[i].line_number,
         old_code |-> <<>>,
         new_code |-> an.lines_to_add[i].content]]

\* Mutant: apply_fixes refuses only a result that is not flagged.
RefusesOnlyUnflagged(dr, cs) == ~dr.needs_fixing

\* apply_fixes returns without calling the patcher:
\* "if not debug_result.get("needs_fixing")" and "if not corrections".
Refuses(dr, cs) == ~dr.needs_fixing \/ cs = <<>>

\* The runs of an existing script ScriptExecutor.execute waits for.
Runs == { p \in Processes : p.script_exists /\ ~p.timed_out }

\* debug, first half: the script is looked up and executed; a run reported
\* as a success ends debug.
DebugExecute ==
    /\ flow.pc = "debug"
    /\ IF ~disk.exists
       THEN flow' = [flow EXCEPT !.pc = "debug returned",
                                 !.debug_result = ScriptNotFound]
       ELSE \E p \in Runs :
               flow' = [flow EXCEPT
                          !.execution = Execute(p),
                          !.executor_calls = @ + 1,
                          !.debug_result =
                              IF Execute(p).success THEN NothingToFix ELSE @,
                          !.pc = IF Execute(p).success
                                 THEN "debug returned" ELSE "analyze"]
    /\ UNCHANGED <<process, executions, inputs, second, restored, world, now,
                   pc, locals, result, pre, writes, calls>>

\* debug, second half: source and traceback go to the analyzer.
DebugAnalyze ==
    /\ flow.pc = "analyze"
    /\ \E a \in Answers :
          flow' = [flow EXCEPT
                     !.answer = a.kind,
                     !.analysis = Analyze(a),
                     !.analyzer_calls = @ + 1,
                     !.debug_result = Debugged(Analyze(a)),
                     !.pc = "debug returned"]
    /\ UNCHANGED <<process, executions, inputs, second, restored, world, now,
                   pc, locals, result, pre, writes, calls>>

\* auto_fix after debug: return the result as it is unless it succeeded and
\* needs fixing.
AutoFixAfterDebug ==
    /\ flow.entry = "auto_fix"
    /\ flow.pc = "debug returned"
    /\ flow' = [flow EXCEPT
                  !.pc = IF flow.debug_result.success
                            /\ flow.debug_result.needs_fixing
                         THEN "apply_fixes" ELSE "returned"]
    /\ UNCHANGED <<process, executions, inputs, second, restored, world, now,
                   pc, locals, result, pre, writes, calls>>

\* A caller of debug passes its result to apply_fixes.
CallApplyFixes ==
    /\ flow.entry = "debug"
    /\ flow.pc = "debug returned"
    /\ flow' = [flow EXCEPT !.pc = "apply_fixes"]
    /\ UNCHANGED <<process, executions, inputs, second, restored, world, now,
                   pc, locals, result, pre, writes, calls>>

\* apply_fixes up to the call of the patcher.
ApplyFixes ==
    /\ flow.pc = "apply_fixes"
    /\ IF Refuses(flow.debug_result, BuildCorrections(flow.analysis))
       THEN /\ flow' = [flow EXCEPT !.pc = "fixes returned",
                                    !.fix_result = NothingToApply]
            /\ UNCHANGED <<corrections, pc, pre, calls>>
       ELSE /\ flow' = [flow EXCEPT !.pc = "patching",
                                    !.patcher_calls = @ + 1]
            /\ corrections' = BuildCorrections(flow.analysis)
            /\ pc' = "start"
            /\ pre' = disk
            /\ calls' = calls + 1
    /\ UNCHANGED <<process, executions, variant, create_backup, analysis,
                   second, restored, world, now, locals, result, writes>>

\* apply_fixes returns what the patcher returned; an exception out of the
\* patcher goes through apply_fixes and auto_fix.
ApplyFixesReturn ==
    /\ flow.pc = "patching"
    /\ pc \in { "done", "raised" }
    /\ flow' = IF pc = "done"
               THEN [flow EXCEPT !.pc = "fixes returned", !.fix_result = result]
               ELSE [flow EXCEPT !.pc = "raised"]
    /\ UNCHANGED <<process, executions, inputs, second, restored, world, now,
                   pc, locals, result, pre, writes, calls>>

\* auto_fix after apply_fixes: the script is executed again when the fix
\* result has success true.
AutoFixVerify ==
    /\ flow.entry = "auto_fix"
    /\ flow.pc = "fixes returned"
    /\ IF flow.fix_result.success
       THEN \E p \in Processes :
               /\ p.script_exists = disk.exists
               /\ ~p.timed_out
               /\ flow' = [flow EXCEPT !.pc = "returned",
                                       !.verification = Execute(p),
                                       !.executor_calls = @ + 1]
       ELSE flow' = [flow EXCEPT !.pc = "returned"]
    /\ UNCHANGED <<process, executions, inputs, second, restored, world, now,
                   pc, locals, result, pre, writes, calls>>

AgentFlowStep ==
    \/ DebugExecute
    \/ DebugAnalyze
    \/ AutoFixAfterDebug
    \/ CallApplyFixes
    \/ ApplyFixes
    \/ ApplyFixesReturn
    \/ AutoFixVerify

\* DebugAgent is constructed and auto_fix, or debug, is called on a script.
InitWorkflow ==
    /\ process = NoProcess
    /\ executions = [r \in Runners |-> NotRun]
    /\ backups = [b \in BackupPaths |-> NoFile]
    /\ \E f \in Scripts, entry \in { "auto_fix", "debug" } :
          /\ PatcherNotCalled(f)
          /\ flow = [entry |-> entry, pc |-> "debug", script |-> f,
                     execution |-> NotRun, answer |-> "none",
                     analysis |-> NotAnalyzed, debug_result |-> NoDebugResult,
                     fix_result |-> NoResult, verification |-> NotRun,
                     executor_calls |-> 0, analyzer_calls |-> 0,
                     patcher_calls |-> 0]

NextWorkflow == AgentFlowStep \/ AgentStep

SpecWorkflow == InitWorkflow /\ [][NextWorkflow]_vars

(***************************************************************************)
(* Vocabulary of the properties.                                           *)
(***************************************************************************)
PreLines == ReadLines(pre.data)
DiskLines == ReadLines(disk.data)

LineNumbersOf(cs) == { cs[i].line_number : i \in DOMAIN cs }

DistinctLineNumbers(cs) ==
    \A i, j \in DOMAIN cs : i # j => cs[i].line_number # cs[j].line_number

\* The lines of ls whose number is not in T, in their order.
Untargeted(ls, T) ==
    LET F[i \in 1..(Len(ls) + 1)] ==
            IF i > Len(ls) THEN <<>>
            ELSE (IF i \in T THEN <<>> ELSE <<ls[i]>>) \o F[i + 1]
    IN  F[1]

InRange(c, ls) == 1 <= c.line_number /\ c.line_number <= Len(ls)

\* The edit's expected text equals, whitespace aside, the line it targets.
Expects(c, ls) == Strip(c.old_code) = Strip(RStripNL(ls[c.line_number]))

\* A batch of deletions at distinct in-range lines whose content matches.
IsDeletionBatch(cs, ls) ==
    /\ DistinctLineNumbers(cs)
    /\ \A i \in DOMAIN cs :
          /\ cs[i].new_code = <<>>
          /\ InRange(cs[i], ls)
          /\ Expects(cs[i], ls)

AgentReturned == variant = "agent" /\ pc = "done"
AgentSucceeded == AgentReturned /\ result.success

\* The loop of the agent patcher is about to process this edit.
AtEdit == variant = "agent" /\ pc = "loop" /\ idx <= Len(sorted_corrections)
CurrentEdit == sorted_corrections[idx]

\* C1: a batch of k deletions at distinct in-range lines of an n-line file,
\* each with matching content, leaves exactly the n-k lines that were not
\* targeted, in their original order.
C1_DeletionsRemoveLines ==
    (AgentSucceeded /\ IsDeletionBatch(corrections, PreLines))
        => DiskLines = Untargeted(PreLines, LineNumbersOf(corrections))

\* What the two patchers do with such a batch: _apply_patches removes the
\* lines; FilePatcher keeps all n lines and blanks the targeted ones.
DebuggerDeletionsRemoveLines ==
    (variant = "debugger" /\ pc = "done" /\ analysis.add = <<>>
        /\ DistinctLineNumbers(analysis.delete)
        /\ \A i \in DOMAIN analysis.delete : InRange(analysis.delete[i], PreLines))
        => DiskLines = Untargeted(PreLines, LineNumbersOf(analysis.delete))

AgentDeletionsBlankLines ==
    (AgentSucceeded /\ IsDeletionBatch(corrections, PreLines))
        => /\ Len(DiskLines) = Len(PreLines)
           /\ \A n \in 1..Len(PreLines) :
                 DiskLines[n] =
                    IF n \in LineNumbersOf(corrections)
                    THEN Spaces(Indent(RStripNL(PreLines[n]))) \o <<NL>>
                    ELSE PreLines[n]

\* C2: an in-range edit whose stripped expected content differs from the
\* stripped current text of its line leaves the buffer as it is, is appended
\* to the failed list as a content mismatch, is not counted, and the loop
\* goes on with the next edit; in the written file the line of such an edit
\* (when no other edit targets it) is the original line and the returned
\* failed list names it.
C2_MismatchStep ==
    (AtEdit /\ InRange(CurrentEdit, lines) /\ ~Expects(CurrentEdit, lines))
        => /\ lines' = lines
           /\ failed_corrections' =
                  Append(failed_corrections,
                         [line |-> CurrentEdit.line_number,
                          reason |-> "Line content mismatch"])
           /\ applied_count' = applied_count
           /\ idx' = idx + 1
           /\ pc' = "loop"

C2_MismatchFinal ==
    AgentSucceeded =>
        \A i \in DOMAIN corrections :
            LET c == corrections[i] IN
            (/\ InRange(c, PreLines)
             /\ ~Expects(c, PreLines)
             /\ \A j \in DOMAIN corrections :
                   j # i => corrections[j].line_number # c.line_number)
                => /\ DiskLines[c.line_number] = PreLines[c.line_number]
                   /\ \E k \in DOMAIN result.failed_corrections :
                         result.failed_corrections[k] =
                            [line |-> c.line_number,
                             reason |-> "Line content mismatch"]
                   /\ result.applied_count < Len(corrections)

C3_InvalidStep ==
    (AtEdit /\ ~InRange(CurrentEdit, lines))
        => /\ lines' = lines
           /\ failed_corrections' =
                  Append(failed_corrections,
                         [line |-> CurrentEdit.line_number,
                          reason |-> "Invalid line number"])
           /\ applied_count' = applied_count
           /\ idx' = idx + 1
           /\ pc' = "loop"

C3_InvalidFinal ==
    AgentSucceeded =>
        /\ Len(DiskLines) = Len(PreLines)
        /\ \A n \in LineNumbers \ (1..Len(PreLines)) :
              Cardinality({ i \in DOMAIN corrections :
                              corrections[i].line_number = n })
                = Cardinality({ k \in DOMAIN result.failed_corrections :
                                  result.failed_corrections[k] =
                                     [line |-> n,
                                      reason |-> "Invalid line number"] })
        /\ (\A i \in DOMAIN corrections : ~InRange(corrections[i], PreLines))
              => disk = pre

PassesChecks(c, ls) == InRange(c, ls) /\ Expects(c, ls)

\* C4: every iteration of the loop either counts the edit as applied (it
\* passed the line-number check and the content check) or appends it to the
\* failed list, never both, so on a successful return applied_count is the
\* number of edits that passed both checks, failed_corrections holds the
\* others, and applied_count + len(failed_corrections) = len(corrections).
C4_AccountingStep ==
    AtEdit =>
        IF PassesChecks(CurrentEdit, lines)
        THEN /\ applied_count' = applied_count + 1
             /\ failed_corrections' = failed_corrections
        ELSE /\ applied_count' = applied_count
             /\ Len(failed_corrections') = Len(failed_corrections) + 1
             /\ failed_corrections'[Len(failed_corrections')].line =
                    CurrentEdit.line_number
             /\ SubSeq(failed_corrections', 1, Len(failed_corrections)) =
                    failed_corrections

C4_AccountingFinal ==
    AgentSucceeded =>
        /\ result.applied_count + Len(result.failed_corrections)
              = Len(corrections)
        /\ DistinctLineNumbers(corrections) =>
              /\ result.applied_count =
                    Cardinality({ i \in DOMAIN corrections :
                                    PassesChecks(corrections[i], PreLines) })
              /\ { result.failed_corrections[k].line :
                      k \in DOMAIN result.failed_corrections }
                    = { corrections[i].line_number :
                          i \in { j \in DOMAIN corrections :
                                    ~PassesChecks(corrections[j], PreLines) } }

WriteFailed == AgentReturned /\ writes = 1 /\ ~result.success

\* C5: if the final write of the patched buffer fails, the file
\* holds its pre-call content when apply returns, and the result is a
\* failure with applied_count = 0.
C5_WriteFailureRestores ==
    WriteFailed => (disk = pre /\ result.applied_count = 0)

\* What the except branch does guarantee after a failed write: the result
\* reports applied_count = 0, and when create_backup is true the file holds
\* its pre-call content again, which is also the content of the backup the
\* result names.  With create_backup false nothing is restored.
C5_WriteFailureRestoresBackup ==
    WriteFailed =>
        /\ result.applied_count = 0
        /\ "applied_count" \in result.keys
        /\ create_backup =>
              /\ disk = pre
              /\ result.backup_path # None
              /\ backups[result.backup_path] = pre

\* A write that failed after truncating the file was undone from the backup,
\* although an edit of the batch had been applied to the buffer.
C5_Witness ==
    /\ WriteFailed
    /\ create_backup
    /\ applied_count >= 1
    /\ WriteLines(lines) # pre.data
    /\ disk = pre

\* C6: at every instant of an apply call the target file holds either the
\* complete original content or the complete patched content.
C6_AtomicReplace ==
    variant = "agent" =>
        \/ disk = pre
        \/ writes = 1 /\ disk = File(WriteLines(lines))

\* C7: the target is not written while the edit loop runs (it keeps the
\* original content, the edits go to the buffer); the buffer is written once
\* and only after every edit of the batch was either applied or refused.
C7_SingleWriteAfterLoop ==
    variant = "agent" =>
        /\ pc \in {"start", "backup", "read", "loop"} =>
              disk = pre /\ writes = 0
        /\ writes <= 1
        /\ writes = 1 =>
              /\ idx = Len(corrections) + 1
              /\ Len(sorted_corrections) = Len(corrections)
              /\ applied_count + Len(failed_corrections) = Len(corrections)
        /\ AgentSucceeded => writes = 1 /\ disk = File(WriteLines(lines))

\* Both edits of a batch were applied to the buffer while the file still had
\* its original content; the write is next.
C7_Witness ==
    /\ variant = "agent"
    /\ pc = "loop"
    /\ Len(corrections) = 2
    /\ idx = 3
    /\ applied_count = 2
    /\ WriteLines(lines) # pre.data
    /\ disk = pre

\* C8: with create_backup the backup is made while the target is still
\* unread and unmodified, every later step of the call finds the pre-call
\* content in the backup, and after a successful apply the backup named by
\* the result holds the content the target had when apply was called.
C8_BackupHoldsOriginal ==
    (variant = "agent" /\ create_backup) =>
        /\ pc = "backup" => (disk = pre /\ lines = <<>> /\ writes = 0)
        /\ backup_path = None => (disk = pre /\ lines = <<>> /\ writes = 0)
        /\ pc \in {"read", "loop", "write", "except"} =>
              (backup_path # None /\ backups[backup_path] = pre)
        /\ AgentSucceeded =>
              /\ result.backup_path # None
              /\ backups[result.backup_path] = pre

\* A call with create_backup changed the file and returned; its backup is
\* the former content.
C8_Witness ==
    /\ AgentSucceeded
    /\ create_backup
    /\ disk # pre
    /\ backups[result.backup_path] = pre

\* C9: the backup path of an invocation of FilePatcher is unique to it, so
\* a backup, once created, keeps its content for ever: no later step of
\* this or of a later invocation overwrites it.
C9_BackupStep ==
    variant = "agent" =>
        \A p \in BackupPaths : backups[p].exists => backups'[p] = backups[p]

C9_BackupNeverOverwritten == [][C9_BackupStep]_vars

ValidEdit(c, ls) ==
    /\ InRange(c, ls)
    /\ c.old_code # Null
    /\ Expects(c, ls)

\* The only edit of the batch with its line number.
AloneOnLine(i, cs) ==
    \A j \in DOMAIN cs : j # i => cs[j].line_number # cs[i].line_number

\* C11: a failure of one edit never aborts the batch.  Unless the target is
\* missing or the final write failed, every valid edit (alone on its line)
\* is applied and written by a successful call, whatever the other edits of
\* the batch contain: out-of-range number, non-matching content or no
\* expected content (None).
C11_EditFailureNeverAborts ==
    (AgentReturned /\ pre.exists /\ ~WriteFailed) =>
        \A i \in DOMAIN corrections :
            (ValidEdit(corrections[i], PreLines) /\ AloneOnLine(i, corrections))
                => /\ result.success
                   /\ DiskLines[corrections[i].line_number] =
                          PatchedLine(RStripNL(PreLines[corrections[i].line_number]),
                                      corrections[i].new_code)

\* Some edit of the batch targets line p and expects its original content.
Touched(p) ==
    \E i \in DOMAIN corrections :
        corrections[i].line_number = p /\ Expects(corrections[i], PreLines)

\* The text ends with the given suffix.
EndsWith(text, suffix) ==
    /\ Len(suffix) <= Len(text)
    /\ SubSeq(text, Len(text) - Len(suffix) + 1, Len(text)) = suffix

\* C12: after a successful apply the file has the lines of the original
\* except those of the applied edits: a line that no edit targets with
\* matching content (untargeted, or targeted only by failed edits) is the
\* original line, and the line of an applied edit (alone on its line) ends
\* with the edit's new content.
C12_FileReflectsAppliedEdits ==
    AgentSucceeded =>
        /\ \A p \in 1..Len(PreLines) :
              ~Touched(p) => DiskLines[p] = PreLines[p]
        /\ \A i \in DOMAIN corrections :
              (ValidEdit(corrections[i], PreLines) /\ AloneOnLine(i, corrections))
                  => EndsWith(DiskLines[corrections[i].line_number],
                              corrections[i].new_code \o <<NL>>)

\* One edit of the batch was applied and changed its line, the other one was
\* refused for its content and its line is the original one.
C12_Witness ==
    /\ AgentSucceeded
    /\ Len(corrections) = 2
    /\ result.applied_count = 1
    /\ \E i, j \in DOMAIN corrections :
          /\ ValidEdit(corrections[i], PreLines)
          /\ DiskLines[corrections[i].line_number] # PreLines[corrections[i].line_number]
          /\ InRange(corrections[j], PreLines)
          /\ ~Touched(corrections[j].line_number)
          /\ DiskLines[corrections[j].line_number] = PreLines[corrections[j].line_number]

\* The leading whitespace of a line, character for character.
LeadingWhitespace(text) == SubSeq(text, 1, Indent(text))

\* C13: the line of an applied replacement is the leading whitespace of the
\* original line (the same characters) followed by the replacement text,
\* and so it is indented exactly as the original line was, whatever
\* whitespace the replacement text carries.
C13_IndentationPreserved ==
    AgentSucceeded =>
        \A i \in DOMAIN corrections :
            (ValidEdit(corrections[i], PreLines) /\ AloneOnLine(i, corrections))
                => LET original == RStripNL(PreLines[corrections[i].line_number])
                       patched == RStripNL(DiskLines[corrections[i].line_number])
                   IN  /\ DiskLines[corrections[i].line_number] =
                              LeadingWhitespace(original)
                                  \o corrections[i].new_code \o <<NL>>
                       /\ LeadingWhitespace(patched) = LeadingWhitespace(original)

DebuggerReturned == variant = "debugger" /\ pc = "done"

\* The lines added after line p (0: before the first line), in the order of
\* the batch.
RECURSIVE AddedAfter(_, _)
AddedAfter(as, p) ==
    IF as = <<>> THEN <<>>
    ELSE (IF Head(as).line_number = p THEN <<Head(as).content \o <<NL>>>> ELSE <<>>)
             \o AddedAfter(Tail(as), p)

\* The file ls with every added line right after the original line it
\* references, no line removed or overwritten.
ExpectedInsertions(ls, as) ==
    LET F[p \in 0..Len(ls)] ==
            (IF p = 0 THEN <<>> ELSE F[p - 1] \o <<ls[p]>>) \o AddedAfter(as, p)
    IN  F[Len(ls)]

\* A batch of pure insertions, each referencing a line of the file (or 0).
IsInsertionBatch(an, ls) ==
    /\ an.delete = <<>>
    /\ an.add # <<>>
    /\ \A i \in DOMAIN an.add : an.add[i].line_number \in 0..Len(ls)

\* C14: pure insertions at distinct line numbers each add a line right after
\* the original line they reference, and no existing line is removed or
\* overwritten: the written file is the original with every inserted line
\* after its referenced line, also when several insertions shift each other.
C14_InsertionsAfterReferencedLine ==
    (DebuggerReturned /\ IsInsertionBatch(analysis, PreLines)
                      /\ DistinctLineNumbers(analysis.add))
        => DiskLines = ExpectedInsertions(PreLines, analysis.add)

\* C15: insertions of one batch that carry the same line number appear in
\* the file, after the line they reference, in the order of the batch.
C15_StableInsertionOrder ==
    (DebuggerReturned /\ IsInsertionBatch(analysis, PreLines)
                      /\ Len(analysis.add) >= 2
                      /\ \A i \in DOMAIN analysis.add :
                            analysis.add[i].line_number = analysis.add[1].line_number)
        => DiskLines = ExpectedInsertions(PreLines, analysis.add)

\* What _apply_patches does guarantee: a single insertion lands right after
\* the line it references.
DebuggerSingleInsertion ==
    (DebuggerReturned /\ IsInsertionBatch(analysis, PreLines)
                      /\ Len(analysis.add) = 1)
        => DiskLines = ExpectedInsertions(PreLines, analysis.add)

\* The orders in which a batch can be given.
Perms(cs) ==
    { [i \in DOMAIN cs |-> cs[f[i]]] :
        f \in { g \in [DOMAIN cs -> DOMAIN cs] :
                   \A i, j \in DOMAIN cs : i # j => g[i] # g[j] } }

IsDescending(cs) ==
    \A i, j \in DOMAIN cs : i < j => cs[i].line_number >= cs[j].line_number

\* C16: for a batch of deletions/replacements with pairwise distinct line
\* numbers the edits are processed in descending line-number order whatever
\* the input order, and the call gives what every permutation of the batch
\* gives: the same file content, the same applied_count and the same failed
\* edits.
C16_OrderIndependence ==
    /\ (variant = "agent" /\ pc = "loop" /\ idx = 1)
          => /\ IsDescending(sorted_corrections)
             /\ sorted_corrections \in Perms(corrections)
    /\ (AgentSucceeded /\ DistinctLineNumbers(corrections))
          => \A cs \in Perms(corrections) :
                LET o == Outcome(pre.data, cs)
                IN  /\ ~o.raised
                    /\ disk.data = WriteLines(o.lines)
                    /\ result.applied_count = o.applied_count
                    /\ result.failed_corrections = o.failed_corrections
    /\ (variant = "simple" /\ pc = "done" /\ DistinctLineNumbers(corrections))
          => \A cs \in Perms(corrections) :
                disk.data = WriteLines(SimpleApplyAll(PreLines, SortedDesc(cs)))

\* A batch given in ascending order, one edit applied and one refused.
C16_Witness ==
    /\ AgentSucceeded
    /\ Len(corrections) = 2
    /\ corrections[1].line_number < corrections[2].line_number
    /\ result.applied_count = 1
    /\ Len(result.failed_corrections) = 1
    /\ disk # pre

\* C17: applying an empty batch to an existing file leaves the file
\* byte-identical, whatever its line terminators and whether or not its
\* last line ends with one, and returns applied_count = 0 with an empty
\* failed list.
C17_EmptyBatchByteIdentical ==
    (AgentSucceeded /\ corrections = <<>>) =>
        /\ disk = pre
        /\ result.applied_count = 0
        /\ "failed_corrections" \in result.keys
        /\ result.failed_corrections = <<>>

\* C18: whatever path apply returns by (success, file not found, error
\* during application or write), the returned value carries both an
\* applied_count and a list of the failed edits.
C18_ResultAlwaysComplete ==
    (pc = "done" /\ variant \in {"agent", "simple"}) =>
        {"applied_count", "failed_corrections"} \subseteq result.keys

\* Both calls returned successfully; `other` is the one that finished first.
BothSucceeded ==
    /\ AgentSucceeded
    /\ other.pc = "done"
    /\ other.result.success

FirstEdit == other.corrections[1]
LastEdit == corrections[1]

\* The final file has the edit the first call applied, unless the last call
\* applied its own edit to the same line, and it has the edit the last call
\* applied.
FileReflectsBoth ==
    /\ (other.result.applied_count = 1
          /\ (result.applied_count = 0
                 \/ LastEdit.line_number # FirstEdit.line_number))
          => EndsWith(DiskLines[FirstEdit.line_number],
                      FirstEdit.new_code \o <<NL>>)
    /\ result.applied_count = 1
          => EndsWith(DiskLines[LastEdit.line_number],
                      LastEdit.new_code \o <<NL>>)

\* The backup each call returned holds the file as that call found it.
BackupsHoldOwnStart ==
    /\ result.backup_path # None => backups[result.backup_path] = pre
    /\ other.result.backup_path # None
          => backups[other.result.backup_path] = other.pre

\* C19: apply takes no lock.  When two calls on the same path are serialized
\* (one returns before the other starts), the final file reflects the
\* applied edits of both and the backup of each call is the content the
\* file had when that call started.  (Without serialization the steps
\* interleave: C19_LostUpdate and C19_BackupOfPatchedFile are reachable.)
C19_SerializedCallsCompose ==
    (BothSucceeded /\ ~overlap) => (FileReflectsBoth /\ BackupsHoldOwnStart)

\* Serialized calls do compose as far as the file is concerned.
SerializedCallsKeepEdits ==
    (BothSucceeded /\ ~overlap) => FileReflectsBoth

\* ... and as far as the backups are concerned when their paths differ.
SerializedBackupsOnDistinctPaths ==
    (BothSucceeded /\ ~overlap /\ result.backup_path # other.result.backup_path)
        => BackupsHoldOwnStart

\* Lost update: both calls report their edit as applied, on different
\* lines, and the final file has the original text in the line of the
\* first one.
C19_LostUpdate ==
    /\ BothSucceeded
    /\ overlap
    /\ result.applied_count = 1
    /\ other.result.applied_count = 1
    /\ LastEdit.line_number # FirstEdit.line_number
    /\ DiskLines[FirstEdit.line_number]
           = ReadLines(other.pre.data)[FirstEdit.line_number]

\* The backup of one call holds content the other call had already patched,
\* although the call that made it started on the unpatched file.
C19_BackupOfPatchedFile ==
    /\ BothSucceeded
    /\ overlap
    /\ other.result.applied_count = 1
    /\ pre = other.pre
    /\ result.backup_path # None
    /\ result.backup_path # other.result.backup_path
    /\ backups[result.backup_path] # pre

\* restore_backup is called with the path the successful apply returned.
RestoringReturnedBackup ==
    /\ variant = "agent"
    /\ pc = "done"
    /\ pc' = "restored"
    /\ result.success
    /\ create_backup
    /\ backup_path' = result.backup_path

\* restore_backup is called with a path at which there is no backup.
RestoringMissingBackup ==
    /\ variant = "agent"
    /\ pc = "done"
    /\ pc' = "restored"
    /\ ~backups[backup_path'].exists

\* C20: after a successful apply with create_backup, restore_backup with
\* the returned path finds the backup, and when it returns True the target
\* holds exactly its pre-apply content (it returns False only if the copy
\* itself raised); with a backup path that does not exist restore_backup
\* returns False and leaves the target as it was.
C20_RestoreStep ==
    /\ RestoringReturnedBackup =>
          /\ backups[backup_path'].exists
          /\ backups[backup_path'] = pre
          /\ restored' = "True" => disk' = pre
          /\ restored' = "False" => disk' \in { disk, File(<<>>) }
    /\ RestoringMissingBackup =>
          /\ restored' = "False"
          /\ disk' = disk

C20_RestoreRoundTrip == [][C20_RestoreStep]_vars

\* The call changed the file, and restore_backup with the returned path
\* returned True and brought the pre-apply content back.
C20_Witness ==
    /\ pc = "restored"
    /\ restored = "True"
    /\ result.success
    /\ result.applied_count >= 1
    /\ backup_path = result.backup_path
    /\ WriteLines(lines) # pre.data
    /\ disk = pre

\* The runners have run the script to its end: the three of them returned
\* and none gave up on a timeout.
SameRun ==
    /\ \A r \in Runners : executions[r] # NotRun
    /\ process.script_exists
    /\ ~process.timed_out

\* C22: for the same run (same exit code, stdout and stderr) the three
\* runners return the same success flag, and that flag is true exactly when
\* the process ended with exit code 0.
C22_SuccessIsExitCodeZero ==
    SameRun =>
        \A r \in Runners : executions[r].success = (process.returncode = 0)

\* The two runners that read the exit code agree on every run.
ExecuteScriptsAgree ==
    SameRun =>
        /\ executions["execute_script"].success = (process.returncode = 0)
        /\ executions["module_execute_script"].success = (process.returncode = 0)

\* A script that exits with 0 after writing a warning on stderr, and one
\* that exits with 1 without writing anything.
C22_WarningOnStderr ==
    /\ SameRun
    /\ process.returncode = 0
    /\ process.stderr # <<>>
    /\ ~executions["execute"].success
    /\ executions["execute_script"].success

C22_SilentFailure ==
    /\ SameRun
    /\ process.returncode # 0
    /\ process.stderr = <<>>
    /\ executions["execute"].success
    /\ ~executions["execute_script"].success
\* What DebugAgent has done so far.
Executed == flow.executor_calls > 0
AnalyzerCalled == flow.analyzer_calls > 0
PatcherCalled == flow.patcher_calls > 0
Verified == flow.verification # NotRun

\* The script and its backups are as they were when DebugAgent was called.
ScriptUntouched ==
    /\ disk = flow.script
    /\ ~backupDir
    /\ \A b \in BackupPaths : ~backups[b].exists

\* C21: the analyzer is called only after an execution that reported a
\* failure, the patcher only after an analysis flagged as needing a fix, the
\* verification run only after a fix result with success true; and a script
\* whose execution was reported as a success is neither analysed nor
\* modified.
C21_StepsInOrder ==
    /\ AnalyzerCalled =>
          /\ flow.executor_calls >= 1
          /\ flow.execution # NotRun
          /\ ~flow.execution.success
    /\ PatcherCalled =>
          /\ flow.analyzer_calls = 1
          /\ flow.analysis.is_code_bug
          /\ flow.debug_result.needs_fixing
    /\ Verified =>
          /\ flow.patcher_calls = 1
          /\ flow.fix_result.success
          /\ flow.executor_calls = 2
    /\ (Executed /\ flow.execution.success) =>
          /\ ~AnalyzerCalled
          /\ ~PatcherCalled
          /\ ScriptUntouched

\* auto_fix went through the four steps and changed the script.
C21_Witness ==
    /\ flow.entry = "auto_fix"
    /\ flow.pc = "returned"
    /\ Verified
    /\ flow.fix_result.applied_count >= 1
    /\ disk # flow.script

\* debug returned after an execution reported as a success.
C21_SucceededWitness ==
    /\ flow.pc = "debug returned"
    /\ flow.execution # NotRun
    /\ flow.execution.success
\* apply_fixes returned what the patcher returned, a success.
FixesApplied ==
    /\ flow.pc \in { "fixes returned", "returned" }
    /\ PatcherCalled
    /\ flow.fix_result.success

\* Entry i of lines_to_delete and entry j of lines_to_add are the only
\* entries of the analysis on their common line, an existing line whose text
\* is the delete's content.
ReplacementPair(i, j) ==
    LET an == flow.analysis
        L == an.lines_to_delete[i].line_number
    IN  /\ an.lines_to_add[j].line_number = L
        /\ L \in 1..Len(PreLines)
        /\ Strip(RStripNL(PreLines[L])) = Strip(an.lines_to_delete[i].content)
        /\ \A k \in DOMAIN an.lines_to_delete :
              an.lines_to_delete[k].line_number = L => k = i
        /\ \A k \in DOMAIN an.lines_to_add :
              an.lines_to_add[k].line_number = L => k = j

\* Positions in the processing order of the delete i and of the add j.
ProcessedBefore(c1, c2) ==
    \E m, n \in DOMAIN sorted_corrections :
        /\ m < n
        /\ sorted_corrections[m] = c1
        /\ sorted_corrections[n] = c2

\* The lines no entry of the analysis targets are as they were.
OtherLinesUnchanged ==
    /\ Len(DiskLines) = Len(PreLines)
    /\ \A n \in 1..Len(PreLines) :
          (n \notin LineNumbersOf(corrections)) => DiskLines[n] = PreLines[n]

\* The replacement with the given indentation in front of the add's content.
ReplacedWith(indentation(_)) ==
    FixesApplied =>
        \A i \in DOMAIN flow.analysis.lines_to_delete,
           j \in DOMAIN flow.analysis.lines_to_add :
            ReplacementPair(i, j) =>
                LET L == flow.analysis.lines_to_add[j].line_number
                    cs == BuildCorrections(flow.analysis)
                IN  /\ ProcessedBefore(cs[i],
                           cs[Len(flow.analysis.lines_to_delete) + j])
                    /\ DiskLines[L] =
                          indentation(RStripNL(PreLines[L]))
                              \o flow.analysis.lines_to_add[j].content \o <<NL>>
                    /\ \A k \in DOMAIN flow.fix_result.failed_corrections :
                          flow.fix_result.failed_corrections[k].line # L
                    /\ flow.fix_result.applied_count >= 2
                    /\ OtherLinesUnchanged

\* As many spaces as the line had leading whitespace characters.
SpacesForIndentation(text) == Spaces(Indent(text))

\* C23: through apply_fixes a lines_to_delete entry and a lines_to_add entry
\* on the same line L, the delete's content matching line L, act as a
\* replacement: the delete is processed before the add, line L ends up as
\* its original indentation followed by the add's content, both entries are
\* counted as applied and no other line changes.
C23_DeleteAddReplaces == ReplacedWith(LeadingWhitespace)

\* The replacement as the code makes it: the indentation comes back as
\* spaces.
DeleteAddReplacesWithSpaces == ReplacedWith(SpacesForIndentation)

\* A delete and an add on the same line were both applied.
C23_Witness ==
    /\ FixesApplied
    /\ \E i \in DOMAIN flow.analysis.lines_to_delete,
          j \in DOMAIN flow.analysis.lines_to_add : ReplacementPair(i, j)
    /\ flow.fix_result.applied_count = 2
\* Edit i of the batch is a deletion that is applied: valid, alone on its
\* line, with an empty new_code.
AppliedDeletion(i) ==
    /\ ValidEdit(corrections[i], PreLines)
    /\ AloneOnLine(i, corrections)
    /\ corrections[i].new_code = <<>>

\* Every applied deletion leaves its line as the given indentation.
DeletionsLeave(indentation(_)) ==
    AgentSucceeded =>
        \A i \in DOMAIN corrections :
            AppliedDeletion(i) =>
                DiskLines[corrections[i].line_number] =
                    indentation(RStripNL(PreLines[corrections[i].line_number]))
                        \o <<NL>>

\* The buffer of the loop and the written file have as many lines as the
\* file had, and the lines no edit targets are the original ones.
LineCountKept ==
    /\ AtEdit => Len(lines) = Len(PreLines)
    /\ AgentSucceeded =>
          /\ Len(DiskLines) = Len(PreLines)
          /\ \A n \in 1..Len(PreLines) :
                (n \notin LineNumbersOf(corrections)) => DiskLines[n] = PreLines[n]

\* C24: apply_corrections of the agent patcher never changes the number of
\* lines of the file (no new_code holds a newline): every applied edit
\* overwrites one existing line in place, and a deletion leaves a line made
\* only of the original indentation of the line instead of removing it.
C24_LineCountInvariant == LineCountKept /\ DeletionsLeave(LeadingWhitespace)

\* What the code does of a deleted line: as many spaces as the line had
\* leading whitespace characters.
DeletionsLeaveSpaces == DeletionsLeave(SpacesForIndentation)

\* A deletion was applied to a line indented with a tab.
C24_TabWitness ==
    /\ AgentSucceeded
    /\ \E i \in DOMAIN corrections :
          /\ AppliedDeletion(i)
          /\ PreLines[corrections[i].line_number][1] = TAB
\* Edits i and j, in this input order, are the two edits of the batch on
\* their common line, which exists, and the first one is applied.
SameLinePair(i, j) ==
    /\ i < j
    /\ corrections[i].line_number = corrections[j].line_number
    /\ ValidEdit(corrections[i], PreLines)
    /\ corrections[j].old_code # Null
    /\ \A k \in DOMAIN corrections :
          corrections[k].line_number = corrections[i].line_number
              => k \in { i, j }

\* The entries of the returned failed list about line L.
FailuresAt(L) ==
    { k \in DOMAIN result.failed_corrections :
        result.failed_corrections[k].line = L }

\* C25: two edits on the same in-range line are processed in input order and
\* the second is matched against the line as the first rewrote it, not
\* against the original line: it is applied only if its stripped old_code is
\* the stripped new_code of the first, and otherwise it is reported as a
\* content mismatch while the first stays applied.
C25_SameLineInInputOrder ==
    AgentSucceeded =>
        \A i, j \in DOMAIN corrections :
            SameLinePair(i, j) =>
                LET L == corrections[i].line_number
                    rewritten == PatchedLine(RStripNL(PreLines[L]),
                                             corrections[i].new_code)
                IN  /\ ProcessedBefore(corrections[i], corrections[j])
                           \/ corrections[i] = corrections[j]
                    /\ IF Strip(corrections[j].old_code)
                              = Strip(corrections[i].new_code)
                       THEN /\ DiskLines[L] =
                                  PatchedLine(RStripNL(rewritten),
                                              corrections[j].new_code)
                            /\ FailuresAt(L) = {}
                            /\ result.applied_count >= 2
                       ELSE /\ DiskLines[L] = rewritten
                            /\ Cardinality(FailuresAt(L)) = 1
                            /\ \A k \in FailuresAt(L) :
                                  result.failed_corrections[k] = Mismatch(L)
                            /\ result.applied_count >= 1

\* The second edit expects the original text of the line, which the first
\* edit has replaced: it is refused.
C25_Witness ==
    /\ AgentSucceeded
    /\ \E i, j \in DOMAIN corrections :
          /\ SameLinePair(i, j)
          /\ Expects(corrections[j], PreLines)
          /\ corrections[i].new_code # <<>>
          /\ FailuresAt(corrections[i].line_number) # {}
          /\ DiskLines[corrections[i].line_number] # PreLines[corrections[i].line_number]

\* The second edit expects what the first one wrote: both are applied.
C25_ChainWitness ==
    /\ AgentSucceeded
    /\ \E i, j \in DOMAIN corrections :
          /\ SameLinePair(i, j)
          /\ corrections[i] # corrections[j]
          /\ ~Expects(corrections[j], PreLines)
          /\ FailuresAt(corrections[i].line_number) = {}
          /\ result.applied_count = 2
\* The second application of the batch returned a success.
Reapplied == calls = 2 /\ AgentSucceeded

\* C26: applying the same list a second time to the file a first successful
\* application produced leaves the content of the file unchanged.
C26_ReapplyIdempotent == Reapplied => disk.data = pre.data

\* The second application applied an edit and changed the file.
C26_Witness ==
    /\ Reapplied
    /\ result.applied_count >= 1
    /\ disk.data # pre.data

\* The second application changes nothing when it refuses every edit, and
\* that is what happens to a single edit that brings another text than the
\* one it expects.
ReapplyRefusedKeepsFile ==
    (Reapplied /\ result.applied_count = 0) => disk.data = pre.data

ReapplySingleEdit ==
    (Reapplied /\ Len(corrections) = 1
        /\ Strip(corrections[1].old_code) # Strip(corrections[1].new_code))
        => disk.data = pre.data
\* The analysis holds no line to delete and no line to add.
NoLines ==
    flow.analysis.lines_to_delete = <<>> /\ flow.analysis.lines_to_add = <<>>

\* apply_fixes has returned.
FixesReturned == flow.pc = "fixes returned"

\* C27: whenever the debug result has needs_fixing false or the analysis
\* holds no line to delete and none to add, apply_fixes returns a failure
\* without calling the patcher: no backup is made and the script is
\* unchanged.
C27_NothingToApply ==
    (FixesReturned /\ (~flow.debug_result.needs_fixing \/ NoLines)) =>
        /\ flow.fix_result = NothingToApply
        /\ ~flow.fix_result.success
        /\ ~PatcherCalled
        /\ pc = "idle"
        /\ calls = 0
        /\ ScriptUntouched

\* apply_fixes was given a result that is not flagged although its
\* analysis proposes lines, and refused it.
C27_Witness ==
    /\ FixesReturned
    /\ ~flow.debug_result.needs_fixing
    /\ AnalyzerCalled
    /\ ~NoLines
    /\ flow.fix_result = NothingToApply

\* apply_fixes was given a flagged result with no line, and refused it.
C27_NoLinesWitness ==
    /\ FixesReturned
    /\ flow.debug_result.needs_fixing
    /\ NoLines
    /\ flow.fix_result = NothingToApply
\* The LLM call raised or its answer could not be parsed.
AnalyzerFailed == AnalyzerCalled /\ flow.answer \in { "raises", "not json" }

\* C28: when the LLM call or the parsing of its answer fails, the analysis
\* has is_code_bug false and no line to delete or to add, so auto_fix
\* returns without applying any edit: the patcher is not called, the script
\* and its backups are unchanged.
C28_AnalyzerFailureAppliesNothing ==
    AnalyzerFailed =>
        /\ ~flow.analysis.is_code_bug
        /\ NoLines
        /\ ~flow.debug_result.needs_fixing
        /\ flow.pc \in { "debug returned", "apply_fixes", "fixes returned",
                         "returned" }
        /\ flow.entry = "auto_fix" =>
              /\ flow.pc \in { "debug returned", "returned" }
              /\ flow.fix_result = NoResult
        /\ ~PatcherCalled
        /\ ~Verified
        /\ ScriptUntouched

\* auto_fix returned after a failure of the analyzer.
C28_Witness ==
    /\ AnalyzerFailed
    /\ flow.entry = "auto_fix"
    /\ flow.pc = "returned"
    /\ flow.debug_result.success
====
